---- MODULE Spec2Model ----
(***************************************************************************)
(* A model of the sales dashboard of src/app.py: the client-held store     *)
(* 'stored-data', the callback manage_data that writes it (upload, manual  *)
(* add, clear), parse_uploaded_file, and the callback update_dashboard     *)
(* that recomputes the charts, the statistics cards and the table from    *)
(* the store, and the callback switch_tabs of the two tab buttons.         *)
(*                                                                         *)
(* Text is a sequence of one-character strings, so that strip(), lower()   *)
(* and endswith() are computed and not assumed.  A cell of a table or a    *)
(* JSON value of the store is a record [k, n, s]:                          *)
(*   k = "null"  a missing value (None, NaN, NaT, JSON null)               *)
(*   k = "num"   the number n; the sales of the model are whole numbers    *)
(*   k = "text"  the text s                                                *)
(*   k = "ts"    a pandas Timestamp at midnight of the day n = yyyymmdd    *)
(***************************************************************************)
EXTENDS Integers, Sequences, FiniteSets, TLC

VARIABLES
    stored_data,      \* dcc.Store 'stored-data'.data: a sequence of JSON records
    status_message,   \* 'status-message'.children
    status_style,     \* 'status-message'.style, by its 'display' and colour
    input_product,    \* 'input-product'.value as the last callback left it
    input_sales,      \* 'input-sales'.value as the last callback left it
    add_clicks,       \* 'add-data-btn'.n_clicks
    clear_clicks,     \* 'clear-data-btn'.n_clicks
    sales_line_chart, \* 'sales-line-chart'.figure
    product_bar_chart, \* 'product-bar-chart'.figure
    stats_cards,      \* 'stats-cards'.children
    data_table,       \* 'data-table-container'.children
    render_pending,   \* update_dashboard is queued: its input was written
    call,             \* the arguments and the outcome of the latest event
    tab_upload_clicks, \* 'tab-upload'.n_clicks
    tab_manual_clicks, \* 'tab-manual'.n_clicks
    upload_section,   \* 'upload-section'.style, by its 'display'
    manual_section,   \* 'manual-section'.style, by its 'display'
    tab_upload_style, \* 'tab-upload'.style: the filled or the outlined button
    tab_manual_style, \* 'tab-manual'.style
    last_tab          \* the tab button clicked last, "" before any click

data_vars == <<stored_data, status_message, status_style, input_product,
               input_sales, add_clicks, clear_clicks, call>>

dashboard_vars == <<sales_line_chart, product_bar_chart, stats_cards, data_table>>

tab_vars == <<tab_upload_clicks, tab_manual_clicks, upload_section,
              manual_section, tab_upload_style, tab_manual_style, last_tab>>

vars == <<data_vars, dashboard_vars, render_pending, tab_vars>>

----------------------------------------------------------------------------
(* Bounds of the model.                                                    *)

\* Clicks on the Add and Clear buttons between two page loads.
MaxClicks == 2

\* Clicks on the two tab buttons between two page loads.
MaxTabClicks == 6

----------------------------------------------------------------------------
(* Cells.                                                                  *)

NULL == [k |-> "null", n |-> 0, s |-> <<>>]
Num(x) == [k |-> "num", n |-> x, s |-> <<>>]
Text(t) == [k |-> "text", n |-> 0, s |-> t]
Timestamp(ymd) == [k |-> "ts", n |-> ymd, s |-> <<>>]

Range(f) == {f[i] : i \in DOMAIN f}

\* A sequence and a dict given element by element, as the value itself.
List(f) == f \o <<>>
Dict(f) == f @@ <<>>

\* Python truthiness of a form value: None, "" and 0 are falsy.
Truthy(c) ==
    CASE c.k = "null" -> FALSE
      [] c.k = "text" -> c.s /= <<>>
      [] c.k = "num"  -> c.n /= 0
      [] OTHER        -> TRUE

----------------------------------------------------------------------------
(* Text operations.                                                        *)

WHITESPACE == {" ", "\t", "\n", "\r", "\f"}

UPPER == <<"A","B","C","D","E","F","G","H","I","J","K","L","M",
           "N","O","P","Q","R","S","T","U","V","W","X","Y","Z">>
LOWER == <<"a","b","c","d","e","f","g","h","i","j","k","l","m",
           "n","o","p","q","r","s","t","u","v","w","x","y","z">>

LowerOf == [c \in Range(UPPER) |-> LOWER[CHOOSE i \in DOMAIN UPPER : UPPER[i] = c]]

lower_char(c) == IF c \in DOMAIN LowerOf THEN LowerOf[c] ELSE c

\* str.lower()
lower(t) == List([i \in DOMAIN t |-> lower_char(t[i])])

\* str.strip(): leading and trailing whitespace removed, inner kept
strip(t) ==
    LET keep == {i \in DOMAIN t : t[i] \notin WHITESPACE} IN
    IF keep = {} THEN <<>>
    ELSE LET lo == CHOOSE i \in keep : \A j \in keep : i <= j
             hi == CHOOSE i \in keep : \A j \in keep : j <= i
         IN  SubSeq(t, lo, hi)

\* str.endswith(suffix)
endswith(t, suffix) ==
    /\ Len(suffix) <= Len(t)
    /\ SubSeq(t, Len(t) - Len(suffix) + 1, Len(t)) = suffix

----------------------------------------------------------------------------
(* Dates: pd.to_datetime and the ISO text of a Timestamp.                  *)

DIGITS == <<"0","1","2","3","4","5","6","7","8","9">>

DigitOf == [c \in Range(DIGITS) |-> (CHOOSE i \in DOMAIN DIGITS : DIGITS[i] = c) - 1]

is_digit(c) == c \in DOMAIN DigitOf
digit_value(c) == DigitOf[c]

\* int() of the digits of t at the positions from..to
RECURSIVE number_at(_, _, _)
number_at(t, from, to) ==
    IF to < from THEN 0
    ELSE 10 * number_at(t, from, to - 1) + digit_value(t[to])

is_leap(y) == (y % 4 = 0 /\ y % 100 /= 0) \/ y % 400 = 0

days_in_month(y, m) ==
    CASE m \in {4, 6, 9, 11} -> 30
      [] m = 2 -> IF is_leap(y) THEN 29 ELSE 28
      [] OTHER -> 31

MIDNIGHT == <<"T","0","0",":","0","0",":","0","0">>

\* The text forms the inputs use: YYYY-MM-DD, alone or followed by T00:00:00.
date_shaped(t) ==
    /\ Len(t) \in {10, 19}
    /\ \A i \in {1, 2, 3, 4, 6, 7, 9, 10} : is_digit(t[i])
    /\ t[5] = "-" /\ t[8] = "-"
    /\ Len(t) = 19 => SubSeq(t, 11, 19) = MIDNIGHT

year_of(t) == number_at(t, 1, 4)
month_of(t) == number_at(t, 6, 7)
day_of(t) == number_at(t, 9, 10)

parses_as_date(t) ==
    /\ date_shaped(t)
    /\ year_of(t) >= 1
    /\ month_of(t) \in 1..12
    /\ day_of(t) >= 1
    /\ day_of(t) <= days_in_month(year_of(t), month_of(t))

parse_date(t) == Timestamp(year_of(t) * 10000 + month_of(t) * 100 + day_of(t))

\* pd.to_datetime(value, errors='coerce') of one value: a missing value or
\* a text that is no date becomes NaT.
to_datetime_coerce(c) ==
    CASE c.k = "null" -> NULL
      [] c.k = "ts"   -> c
      [] c.k = "text" -> IF parses_as_date(c.s) THEN parse_date(c.s) ELSE NULL

\* pd.to_datetime(value) raises on a text that is no date.
to_datetime_raises(c) == c.k = "text" /\ ~parses_as_date(c.s)

two_digits(x) == <<DIGITS[((x \div 10) % 10) + 1], DIGITS[(x % 10) + 1]>>

\* Timestamp.isoformat(), the form the JSON encoder writes
isoformat(ts) ==
    LET y == ts.n \div 10000
        m == (ts.n \div 100) % 100
        d == ts.n % 100
    IN  two_digits(y \div 100) \o two_digits(y % 100) \o <<"-">>
        \o two_digits(m) \o <<"-">> \o two_digits(d) \o MIDNIGHT

\* A value as the JSON encoder writes it into a component property.
to_json(c) ==
    CASE c.k = "ts" -> Text(isoformat(c))
      [] OTHER      -> c

----------------------------------------------------------------------------
(* Tables (pandas DataFrames): column names and rows of cells.             *)

DATE    == <<"d","a","t","e">>
PRODUCT == <<"p","r","o","d","u","c","t">>
SALES   == <<"s","a","l","e","s">>

DataFrame(columns, rows) == [ok |-> TRUE, columns |-> columns, rows |-> rows]

\* parse_uploaded_file's None
None == [ok |-> FALSE, columns |-> <<>>, rows |-> <<>>]

\* A variant that lowercases the names and does not trim them.
clean_columns_untrimmed(df) ==
    [df EXCEPT !.columns = List([i \in DOMAIN df.columns |-> lower(df.columns[i])])]

\* df.columns.str.strip().str.lower()
clean_columns(df) ==
    [df EXCEPT !.columns = List([i \in DOMAIN df.columns |-> lower(strip(df.columns[i]))])]

\* if col not in df.columns: df[col] = None
require_column(df, col) ==
    IF col \in Range(df.columns) THEN df
    ELSE [df EXCEPT !.columns = Append(df.columns, col),
                    !.rows = List([i \in DOMAIN df.rows |-> Append(df.rows[i], NULL)])]

\* for col in ['date', 'product', 'sales']: ...
force_required(df) ==
    require_column(require_column(require_column(df, DATE), PRODUCT), SALES)

all_missing(row) == \A j \in DOMAIN row : row[j].k = "null"
not_all_missing(row) == ~all_missing(row)

\* df.dropna(how='all')
dropna_all(df) == [df EXCEPT !.rows = SelectSeq(df.rows, not_all_missing)]

\* df['date'] is one column only when the name 'date' occurs once; with the
\* name repeated it is a DataFrame, and pd.to_datetime of it raises.
date_columns(df) == {j \in DOMAIN df.columns : df.columns[j] = DATE}

\* df['date'] = pd.to_datetime(df['date'], errors='coerce')
fix_date(df) ==
    LET j == CHOOSE j \in date_columns(df) : TRUE IN
    [df EXCEPT !.rows = List([i \in DOMAIN df.rows |->
                                [df.rows[i] EXCEPT ![j] = to_datetime_coerce(@)]])]

\* DataFrame.empty
empty(df) == df.rows = <<>> \/ df.columns = <<>>

\* df.to_dict('records') as the JSON encoder writes it: one record per row,
\* keyed by column name (the last column of a repeated name wins).
to_dict_records(df) ==
    List([i \in DOMAIN df.rows |->
        Dict([c \in Range(df.columns) |->
            LET j == CHOOSE j \in DOMAIN df.columns :
                        /\ df.columns[j] = c
                        /\ \A h \in DOMAIN df.columns : df.columns[h] = c => h <= j
            IN  to_json(df.rows[i][j])])])

----------------------------------------------------------------------------
(* parse_uploaded_file                                                     *)

EXT_CSV  == <<".","c","s","v">>
EXT_XLSX == <<".","x","l","s","x">>
EXT_XLS  == <<".","x","l","s">>

\* The upload's contents: absent, or a data URL whose payload pd.read_csv /
\* pd.read_excel either reads into a table or rejects with an exception.
NoContents == [present |-> FALSE, readable |-> FALSE, columns |-> <<>>, rows |-> <<>>]
Contents(readable, columns, rows) ==
    [present |-> TRUE, readable |-> readable, columns |-> columns, rows |-> rows]

\* The part of parse_uploaded_file after the file was read.
coerce_date(df) ==
    IF Cardinality(date_columns(df)) /= 1 THEN None ELSE fix_date(df)

clean_table(df) ==
    coerce_date(dropna_all(force_required(clean_columns(df))))

parse_uploaded_file(contents, filename) ==
    IF ~contents.present THEN None
    ELSE IF \/ endswith(lower(filename), EXT_CSV)
            \/ endswith(lower(filename), EXT_XLSX)
            \/ endswith(lower(filename), EXT_XLS)
         THEN IF contents.readable
              THEN clean_table(DataFrame(contents.columns, contents.rows))
              ELSE None
         ELSE None

----------------------------------------------------------------------------
(* The seed: load_initial_data and the layout's dcc.Store.                 *)

PRODUCT_ == <<"P","r","o","d","u","c","t"," ">>
SampleProducts == <<PRODUCT_ \o <<"A">>, PRODUCT_ \o <<"B">>, PRODUCT_ \o <<"C">>>>
SampleSales == <<100, 150, 200, 120, 180, 220, 140, 190, 230, 160>>

\* The sample table, built when neither data/sales.csv nor data/sales.xlsx
\* exists (the repository ships no data directory).
load_initial_data ==
    DataFrame(<<DATE, PRODUCT, SALES>>,
              List([i \in DOMAIN SampleSales |->
                  <<Timestamp(20240100 + i),
                    Text(SampleProducts[((i - 1) % 3) + 1]),
                    Num(SampleSales[i])>>]))

\* dcc.Store(id='stored-data', data=df.to_dict('records'))
layout_stored_data == to_dict_records(load_initial_data)

----------------------------------------------------------------------------
(* update_dashboard: the line chart.                                       *)

\* The columns of pd.DataFrame(records): the keys of the records, which all
\* have the keys of the table they were written from.
Columns(records) == IF records = <<>> THEN {} ELSE DOMAIN records[1]

\* data['sales'].sum() adds the cells with Python's +, and the result is
\* formatted with ',.0f': either step raises when a cell is a text.
stats_raise(records) ==
    /\ SALES \in Columns(records)
    /\ \E i \in DOMAIN records : records[i][SALES].k = "text"

\* pd.to_datetime(data['date']), without errors='coerce'
dates_raise(records) ==
    /\ DATE \in Columns(records)
    /\ \E i \in DOMAIN records : to_datetime_raises(records[i][DATE])

update_dashboard_raises(records) ==
    records /= <<>> /\ (dates_raise(records) \/ stats_raise(records))

\* a sorts before b under sort_values('date'): NaT goes last
date_before(a, b) == a.k = "ts" /\ (b.k = "null" \/ a.n < b.n)

RECURSIVE insert_by_date(_, _)
insert_by_date(sorted, r) ==
    IF sorted = <<>> THEN <<r>>
    ELSE IF date_before(r[DATE], sorted[Len(sorted)][DATE])
         THEN Append(insert_by_date(SubSeq(sorted, 1, Len(sorted) - 1), r),
                     sorted[Len(sorted)])
         ELSE Append(sorted, r)

\* data.sort_values('date'); rows of one date keep their order here, which
\* the sort of the library does not promise and no property below relies on.
RECURSIVE sort_values_date(_)
sort_values_date(records) ==
    IF records = <<>> THEN <<>>
    ELSE insert_by_date(sort_values_date(SubSeq(records, 1, Len(records) - 1)),
                        records[Len(records)])

NoDataFigure == [kind |-> "No data available", x |-> <<>>, y |-> <<>>]

\* px.line(data_sorted, x='date', y='sales'): one point per row
line_fig(records) ==
    IF records /= <<>> /\ DATE \in Columns(records) /\ SALES \in Columns(records)
    THEN LET data == List([i \in DOMAIN records |->
                        [records[i] EXCEPT ![DATE] = to_datetime_coerce(@)]])
             data_sorted == sort_values_date(data)
         IN  [kind |-> "line",
              x |-> List([i \in DOMAIN data_sorted |-> data_sorted[i][DATE]]),
              y |-> List([i \in DOMAIN data_sorted |-> data_sorted[i][SALES]])]
    ELSE NoDataFigure

\* dcc.Graph(id="sales-line-chart") of the layout: no figure yet
NoFigure == [kind |-> "", x |-> <<>>, y |-> <<>>]

----------------------------------------------------------------------------
(* update_dashboard: the statistics cards.                                 *)

\* str(n) of a number not below zero
RECURSIVE str_nat(_)
str_nat(n) ==
    IF n < 10 THEN <<DIGITS[n + 1]>>
    ELSE Append(str_nat(n \div 10), DIGITS[(n % 10) + 1])

\* the ',' option of a format: a comma before every group of three digits
RECURSIVE group_thousands(_)
group_thousands(digits) ==
    IF Len(digits) <= 3 THEN digits
    ELSE group_thousands(SubSeq(digits, 1, Len(digits) - 3))
         \o <<",">> \o SubSeq(digits, Len(digits) - 2, Len(digits))

\* f"{x:,.0f}" of a whole number x
format_comma(x) ==
    IF x < 0 THEN <<"-">> \o group_thousands(str_nat(0 - x))
    ELSE group_thousands(str_nat(x))

\* round(total / count) to the nearest whole number, a half to the even
\* one, as the format '.0f' rounds
round_half_even(total, count) ==
    LET q == total \div count
        r == total % count
    IN  IF 2 * r < count THEN q
        ELSE IF 2 * r > count THEN q + 1
        ELSE IF q % 2 = 0 THEN q ELSE q + 1

\* the cells of data['sales'] that are not missing
RECURSIVE sales_present(_)
sales_present(records) ==
    IF records = <<>> THEN <<>>
    ELSE IF records[1][SALES].k = "null" THEN sales_present(Tail(records))
    ELSE <<records[1][SALES]>> \o sales_present(Tail(records))

\* Series.sum(): the missing values are skipped
RECURSIVE series_sum(_)
series_sum(cells) ==
    IF cells = <<>> THEN 0 ELSE cells[1].n + series_sum(Tail(cells))

\* A variant that counts the rows that have a product.
nunique_rows(records) ==
    Cardinality({i \in DOMAIN records : records[i][PRODUCT] /= NULL})

\* data['product'].nunique(): the distinct values, the missing ones apart
nunique(records) ==
    Cardinality({records[i][PRODUCT] : i \in DOMAIN records} \ {NULL})

NAN == <<"n","a","n">>

create_stat_card(title, value) == [title |-> title, value |-> value]

\* stats_cards of update_dashboard; the mean of no value at all is nan
stats_cards_of(records) ==
    IF records /= <<>> /\ SALES \in Columns(records)
    THEN LET present == sales_present(records)
             total_sales == series_sum(present)
             total_products == IF PRODUCT \in Columns(records) THEN nunique(records) ELSE 0
             total_records == Len(records)
         IN  <<create_stat_card("Total Sales", <<"$">> \o format_comma(total_sales)),
               create_stat_card("Average Sale",
                                <<"$">> \o (IF present = <<>> THEN NAN
                                            ELSE format_comma(round_half_even(total_sales, Len(present))))),
               create_stat_card("Products", str_nat(total_products)),
               create_stat_card("Records", str_nat(total_records))>>
    ELSE <<>>

----------------------------------------------------------------------------
(* update_dashboard: the bar chart and the table.                          *)

\* data.dropna(subset=['product', 'sales'])
has_product_and_sales(r) == r[PRODUCT].k /= "null" /\ r[SALES].k /= "null"
dropna_product_sales(records) == SelectSeq(records, has_product_and_sales)

\* data.groupby('product', dropna=True)['sales'].sum().reset_index(): one
\* row per value of the column as it is stored, with the sum of its sales
RECURSIVE group_total(_, _)
group_total(records, product) ==
    IF records = <<>> THEN 0
    ELSE group_total(Tail(records), product)
         + (IF records[1][PRODUCT] = product THEN records[1][SALES].n ELSE 0)

groupby_product_sum(records) ==
    {[product |-> p, sales |-> group_total(records, p)] :
        p \in {records[i][PRODUCT] : i \in DOMAIN records}}

\* product_sales['product'].astype(str).str.strip() != ""
named(g) == g.product.k /= "text" \/ strip(g.product.s) /= <<>>

\* sort_values('sales', ascending=False).head(10); the order of rows of one
\* total is left to the sort, and no property below relies on it.
RECURSIVE sort_sales_descending_head(_, _)
sort_sales_descending_head(groups, n) ==
    IF groups = {} \/ n = 0 THEN <<>>
    ELSE LET g == CHOOSE g \in groups : \A h \in groups : h.sales <= g.sales
         IN  <<g>> \o sort_sales_descending_head(groups \ {g}, n - 1)

NoValidFigure == [kind |-> "No valid product or sales data found", x |-> <<>>, y |-> <<>>]

\* px.bar(product_sales, x='product', y='sales')
bar_fig(records) ==
    IF records /= <<>> /\ PRODUCT \in Columns(records) /\ SALES \in Columns(records)
    THEN LET data == dropna_product_sales(records) IN
         IF data = <<>> THEN NoValidFigure
         ELSE LET product_sales ==
                      sort_sales_descending_head(
                          {g \in groupby_product_sum(data) : named(g)}, 10)
              IN  [kind |-> "bar",
                   x |-> List([i \in DOMAIN product_sales |-> product_sales[i].product]),
                   y |-> List([i \in DOMAIN product_sales |-> Num(product_sales[i].sales)])]
    ELSE NoDataFigure

\* The frame `data` as the table reads it: the bar chart's branch has bound
\* the name to the rows left by its dropna.
data_after_bar_chart(records) ==
    IF records /= <<>> /\ PRODUCT \in Columns(records) /\ SALES \in Columns(records)
    THEN dropna_product_sales(records)
    ELSE records

date_after(a, b) == a.k = "ts" /\ (b.k = "null" \/ a.n > b.n)

RECURSIVE insert_by_date_descending(_, _)
insert_by_date_descending(sorted, r) ==
    IF sorted = <<>> THEN <<r>>
    ELSE IF date_after(to_datetime_coerce(r[DATE]),
                       to_datetime_coerce(sorted[Len(sorted)][DATE]))
         THEN Append(insert_by_date_descending(SubSeq(sorted, 1, Len(sorted) - 1), r),
                     sorted[Len(sorted)])
         ELSE Append(sorted, r)

\* data.sort_values('date', ascending=False)
RECURSIVE sort_values_date_descending(_)
sort_values_date_descending(records) ==
    IF records = <<>> THEN <<>>
    ELSE insert_by_date_descending(
             sort_values_date_descending(SubSeq(records, 1, Len(records) - 1)),
             records[Len(records)])

\* data_table = None
NoTable == [shown |-> FALSE, heading |-> <<>>, data |-> <<>>]

\* the heading "All Sales Data (n records)" and the DataTable's data
data_table_of(records) ==
    LET data == data_after_bar_chart(records) IN
    IF data = <<>> THEN NoTable
    ELSE [shown |-> TRUE,
          heading |-> str_nat(Len(data)),
          data |-> IF DATE \in Columns(data)
                   THEN sort_values_date_descending(data) ELSE data]

\* What update_dashboard returns.
update_dashboard(stored_data_) ==
    [line_fig |-> line_fig(stored_data_),
     bar_fig |-> bar_fig(stored_data_),
     stats_cards |-> stats_cards_of(stored_data_),
     data_table |-> data_table_of(stored_data_)]

----------------------------------------------------------------------------
(* The inputs: what a user can type, pick and drop.                        *)

D1 == <<"2","0","2","4","-","0","1","-","0","1">>
D2 == <<"2","0","2","4","-","0","1","-","0","2">>
\* shaped like a date, but no day of the calendar
BAD_DATE == <<"2","0","2","4","-","0","2","-","3","0">>

\* The forms submitted: DatePickerSingle gives None or an ISO date, the
\* text input None until typed into and then the text, the number input
\* None or a number.  Three forms that pass the check of manage_data, and
\* forms with one field or every field missing or empty.
Form(date, product, sales) == [date |-> date, product |-> product, sales |-> sales]
Forms ==
    {Form(Text(D1), Text(<<"A">>), Num(0)),
     Form(Text(D2), Text(<<"A", " ">>), Num(30)),
     Form(Text(D2), Text(<<"A">>), Num(-5)),
     Form(NULL, Text(<<"A">>), Num(0)),
     Form(Text(D1), Text(<<>>), Num(0)),
     Form(Text(D1), NULL, Num(30)),
     Form(Text(D2), Text(<<"A">>), NULL),
     Form(NULL, NULL, NULL)}

\* Rows of a sheet as (date, product, sales).
R1 == <<Text(D1), Text(<<"A">>), Num(100)>>
R2 == <<Text(D1), Text(<<"B">>), Num(50)>>
R3 == <<Text(D2), Text(<<"A">>), Num(30)>>
RNeg == <<Text(D2), Text(<<" ">>), Num(-5)>>
RBad == <<Text(BAD_DATE), NULL, Text(<<"x">>)>>
RBlank == <<NULL, NULL, NULL>>
RNoDay == <<Text(BAD_DATE), NULL, NULL>>

Sheets == {<<R1, R2, R3>>, <<RNeg>>, <<RBad>>, <<RBlank>>, <<RBlank, R3>>, <<RNoDay>>}

\* Header rows; `from` says which of (date, product, sales) a column holds,
\* 0 for a column that is empty in every row.
Layouts ==
    { [columns |-> <<DATE, PRODUCT, SALES>>, from |-> <<1, 2, 3>>],
      [columns |-> << <<" ","D","a","t","e"," ","\r","\n">>,
                      <<"P","R","O","D","U","C","T">>,
                      <<"S","a","l","e","s">> >>, from |-> <<1, 2, 3>>],
      [columns |-> << <<"d","a","\n","t","e">>, PRODUCT, SALES>>, from |-> <<1, 2, 3>>],
      [columns |-> <<DATE, PRODUCT>>, from |-> <<1, 2>>],
      [columns |-> << <<"D","a","t","e">>, DATE, PRODUCT, SALES>>,
       from |-> <<1, 1, 2, 3>>],
      [columns |-> <<DATE, PRODUCT, SALES, <<"n","o","t","e">> >>,
       from |-> <<1, 2, 3, 0>>] }

Sheet(layout, sheet) ==
    Contents(TRUE, layout.columns,
             List([i \in DOMAIN sheet |->
                 List([j \in DOMAIN layout.from |->
                     IF layout.from[j] = 0 THEN NULL ELSE sheet[i][layout.from[j]]])]))

\* bytes that no reader accepts
Garbage == Contents(FALSE, <<>>, <<>>)

NAME_CSV  == <<"s","a","l","e","s">> \o EXT_CSV
NAME_XLSX == <<"Q","1",".","X","L","S","X">>
NAME_XLS  == <<"o","l","d">> \o EXT_XLS
NAME_TXT  == <<"n","o","t","e","s",".","t","x","t">>
PlainLayout == [columns |-> <<DATE, PRODUCT, SALES>>, from |-> <<1, 2, 3>>]

File(filename, contents) == [filename |-> filename, contents |-> contents]

Files ==
    {File(NAME_CSV, Sheet(PlainLayout, t)) : t \in Sheets}
    \cup {File(NAME_CSV, Sheet(l, <<R1>>)) : l \in Layouts \ {PlainLayout}}
    \cup {File(n, Sheet(PlainLayout, <<R3>>)) : n \in {NAME_XLSX, NAME_XLS, NAME_TXT}}
    \cup {File(NAME_CSV, Garbage)}

\* parse_uploaded_file(contents, filename) of every file, computed once.
ParsedFiles == [f \in Files |-> parse_uploaded_file(f.contents, f.filename)]

----------------------------------------------------------------------------
(* manage_data                                                             *)

NoMessage == [text |-> "", filename |-> <<>>, rows |-> 0,
              date |-> NULL, product |-> NULL, sales |-> NULL]

PreventUpdate ==
    [prevent |-> TRUE, data |-> <<>>, message |-> NoMessage, style |-> "",
     product |-> NULL, sales |-> NULL, outcome |-> "PreventUpdate"]

Return(data, message, style, product, sales, outcome) ==
    [prevent |-> FALSE, data |-> data, message |-> message, style |-> style,
     product |-> product, sales |-> sales, outcome |-> outcome]

\* A variant that takes whatever parse_uploaded_file returned.
upload_accepted_unchecked(uploaded_df) == TRUE

\* uploaded_df is not None and not uploaded_df.empty
upload_accepted(uploaded_df) == uploaded_df.ok /\ ~empty(uploaded_df)

\* A variant that adds the file's records to those of the store.
upload_store_appended(uploaded_df, current_data) ==
    current_data \o to_dict_records(uploaded_df)

\* the store a successful upload returns
upload_store(uploaded_df, current_data) == to_dict_records(uploaded_df)

\* A variant that does not look at the product.
fields_missing_product_unchecked(date, product, sales) ==
    ~Truthy(date) \/ sales.k = "null"

\* not date or not product or sales is None
fields_missing(date, product, sales) ==
    ~Truthy(date) \/ ~Truthy(product) \/ sales.k = "null"

\* new_row: pd.to_datetime(date), product, float(sales); float() keeps the
\* value of a number.
new_row(date, product, sales) ==
    DataFrame(<<DATE, PRODUCT, SALES>>,
              << <<to_datetime_coerce(date), product, Num(sales.n)>> >>)

\* A variant that keeps the new row and drops the table it is added to.
concat_records_row_only(current_data, row) == row

\* pd.concat([data_df, new_row], ignore_index=True).to_dict('records'):
\* the columns are the union, a record gets a missing value where its
\* table had no such column.
concat_records(current_data, row) ==
    LET cols == Columns(current_data) \cup Columns(row)
        widen(r) == IF DOMAIN r = cols THEN r
                    ELSE Dict([c \in cols |-> IF c \in DOMAIN r THEN r[c] ELSE NULL])
    IN  [i \in DOMAIN current_data |-> widen(current_data[i])]
        \o [i \in DOMAIN row |-> widen(row[i])]

\* A variant that returns the store as it is.
cleared_store_kept(current_data) == current_data

\* the store the clear branch returns
cleared_store(current_data) == <<>>

\* An upload that is not accepted falls through to the branches of the
\* buttons, which its trigger_id does not match, and to PreventUpdate.
manage_data(trigger_id, n_add, n_clear, upload_contents, date, product, sales, current_data, filename) ==
    IF trigger_id = "upload-data" /\ upload_contents.present /\ filename /= <<>>
    THEN LET uploaded_df == ParsedFiles[File(filename, upload_contents)] IN
         IF upload_accepted(uploaded_df)
         THEN Return(upload_store(uploaded_df, current_data),
                     [NoMessage EXCEPT !.text = "Successfully loaded",
                                       !.filename = filename,
                                       !.rows = Len(uploaded_df.rows)],
                     "success", Text(<<>>), NULL, "loaded")
         ELSE PreventUpdate
    ELSE IF trigger_id = "add-data-btn" /\ n_add > 0
    THEN IF fields_missing(date, product, sales)
         THEN Return(current_data,
                     [NoMessage EXCEPT !.text = "Please fill in all fields"],
                     "danger", product, sales, "fill in all fields")
         ELSE Return(concat_records(current_data,
                                    to_dict_records(new_row(date, product, sales))),
                     [NoMessage EXCEPT !.text = "Added", !.date = date,
                                       !.product = product, !.sales = sales],
                     "success", Text(<<>>), NULL, "added")
    ELSE IF trigger_id = "clear-data-btn" /\ n_clear > 0
    THEN Return(cleared_store(current_data),
                [NoMessage EXCEPT !.text = "All data cleared"],
                "success", Text(<<>>), NULL, "cleared")
    ELSE PreventUpdate

----------------------------------------------------------------------------
(* switch_tabs                                                             *)

\* The four styles it returns: the 'display' of the two sections, and the
\* filled (active) or outlined look of the two buttons.
switch_tabs(upload_clicks, manual_clicks) ==
    IF upload_clicks > manual_clicks
    THEN [upload_section |-> "block", manual_section |-> "none",
          tab_upload |-> "filled", tab_manual |-> "outlined"]
    ELSE [upload_section |-> "none", manual_section |-> "block",
          tab_upload |-> "outlined", tab_manual |-> "filled"]

----------------------------------------------------------------------------
(* The state machine.                                                      *)

Call(trigger_id, date, product, sales, current_data, upload_contents, filename, outcome) ==
    [trigger_id |-> trigger_id, date |-> date, product |-> product,
     sales |-> sales, current_data |-> current_data,
     upload_contents |-> upload_contents, filename |-> filename,
     outcome |-> outcome]

\* The page as the layout builds it.  The callbacks of the first render
\* follow: manage_data has no trigger and raises PreventUpdate at once,
\* switch_tabs runs on the click counts of the layout, update_dashboard is
\* queued with the layout's store.
PageLoad(s, m, st, p, sa, a, c, ch, rp) ==
    /\ s = layout_stored_data
    /\ m = NoMessage
    /\ st = "hidden"
    /\ p = NULL
    /\ sa = NULL
    /\ a = 0
    /\ c = 0
    /\ ch = NoFigure
    /\ rp = TRUE

DashboardLoad(bar, cards, table) ==
    /\ bar = NoFigure
    /\ cards = <<>>
    /\ table = NoTable

TabsLoad(u, m, us, ms, ut, mt, last) ==
    /\ u = 0
    /\ m = 0
    /\ us = switch_tabs(0, 0).upload_section
    /\ ms = switch_tabs(0, 0).manual_section
    /\ ut = switch_tabs(0, 0).tab_upload
    /\ mt = switch_tabs(0, 0).tab_manual
    /\ last = ""

Init ==
    /\ PageLoad(stored_data, status_message, status_style, input_product,
                input_sales, add_clicks, clear_clicks, sales_line_chart,
                render_pending)
    /\ DashboardLoad(product_bar_chart, stats_cards, data_table)
    /\ TabsLoad(tab_upload_clicks, tab_manual_clicks, upload_section,
                manual_section, tab_upload_style, tab_manual_style, last_tab)
    /\ call = Call("", NULL, NULL, NULL, <<>>, NoContents, <<>>, "first load")

\* One run of manage_data.  Writing 'stored-data' queues update_dashboard,
\* whose only Input it is; PreventUpdate writes nothing.
Fire(trigger_id, n_add, n_clear, upload_contents, date, product, sales, filename) ==
    \E r \in {manage_data(trigger_id, n_add, n_clear, upload_contents, date,
                         product, sales, stored_data, filename)} :
        /\ ~render_pending
        /\ call' = Call(trigger_id, date, product, sales, stored_data,
                        upload_contents, filename, r.outcome)
        /\ UNCHANGED <<dashboard_vars, tab_vars>>
        /\ IF r.prevent
           THEN UNCHANGED <<stored_data, status_message, status_style,
                            input_product, input_sales, render_pending>>
           ELSE /\ stored_data' = r.data
                /\ status_message' = r.message
                /\ status_style' = r.style
                /\ input_product' = r.product
                /\ input_sales' = r.sales
                /\ render_pending' = TRUE

\* A file is dropped on 'upload-data'.
Upload ==
    \E f \in Files :
        /\ Fire("upload-data", add_clicks, clear_clicks, f.contents,
                NULL, input_product, input_sales, f.filename)
        /\ UNCHANGED <<add_clicks, clear_clicks>>

\* The form is filled in and 'add-data-btn' is clicked.
Add ==
    \E form \in Forms :
        /\ add_clicks + clear_clicks < MaxClicks
        /\ add_clicks' = add_clicks + 1
        /\ Fire("add-data-btn", add_clicks + 1, clear_clicks, NoContents,
                form.date, form.product, form.sales, <<>>)
        /\ UNCHANGED clear_clicks

\* 'clear-data-btn' is clicked.
Clear ==
    /\ add_clicks + clear_clicks < MaxClicks
    /\ clear_clicks' = clear_clicks + 1
    /\ Fire("clear-data-btn", add_clicks, clear_clicks + 1, NoContents,
            NULL, input_product, input_sales, <<>>)
    /\ UNCHANGED add_clicks

\* The queued update_dashboard runs on the store; when it raises, its
\* outputs stay as they were.
UpdateDashboard ==
    /\ render_pending
    /\ render_pending' = FALSE
    /\ IF update_dashboard_raises(stored_data)
       THEN UNCHANGED dashboard_vars
       ELSE \E r \in {update_dashboard(stored_data)} :
                /\ sales_line_chart' = r.line_fig
                /\ product_bar_chart' = r.bar_fig
                /\ stats_cards' = r.stats_cards
                /\ data_table' = r.data_table
    /\ UNCHANGED <<data_vars, tab_vars>>

\* One run of switch_tabs, on the click counts after the click.
SwitchTabs(upload_clicks, manual_clicks) ==
    \E r \in {switch_tabs(upload_clicks, manual_clicks)} :
        /\ upload_section' = r.upload_section
        /\ manual_section' = r.manual_section
        /\ tab_upload_style' = r.tab_upload
        /\ tab_manual_style' = r.tab_manual

\* 'tab-upload' is clicked.
ClickTabUpload ==
    /\ tab_upload_clicks + tab_manual_clicks < MaxTabClicks
    /\ tab_upload_clicks' = tab_upload_clicks + 1
    /\ last_tab' = "tab-upload"
    /\ SwitchTabs(tab_upload_clicks + 1, tab_manual_clicks)
    /\ UNCHANGED <<tab_manual_clicks, data_vars, dashboard_vars, render_pending>>

\* 'tab-manual' is clicked.
ClickTabManual ==
    /\ tab_upload_clicks + tab_manual_clicks < MaxTabClicks
    /\ tab_manual_clicks' = tab_manual_clicks + 1
    /\ last_tab' = "tab-manual"
    /\ SwitchTabs(tab_upload_clicks, tab_manual_clicks + 1)
    /\ UNCHANGED <<tab_upload_clicks, data_vars, dashboard_vars, render_pending>>

\* The page is loaded again: every component is rebuilt from the layout.
\* The store is a dcc.Store without storage_type, so it is held in memory
\* and starts from the layout's data.
Reload ==
    /\ ~render_pending
    /\ PageLoad(stored_data', status_message', status_style', input_product',
                input_sales', add_clicks', clear_clicks', sales_line_chart',
                render_pending')
    /\ DashboardLoad(product_bar_chart', stats_cards', data_table')
    /\ TabsLoad(tab_upload_clicks', tab_manual_clicks', upload_section',
                manual_section', tab_upload_style', tab_manual_style', last_tab')
    /\ call' = Call("", NULL, NULL, NULL, stored_data, NoContents, <<>>, "reload")

Next == Upload \/ Add \/ Clear \/ UpdateDashboard \/ Reload

Spec == Init /\ [][Next]_vars

\* The tab buttons.  switch_tabs reads and writes the click counts of the
\* two buttons and the styles of the two sections and of the buttons, which
\* no other callback reads or writes: the clicks on the tabs are explored
\* apart from the uploads and the entries.
NextTabs == ClickTabUpload \/ ClickTabManual \/ UpdateDashboard \/ Reload

SpecTabs == Init /\ [][NextTabs]_vars

----------------------------------------------------------------------------
(* Properties.  `call` is the last run of manage_data (or the page load):  *)
(* its trigger, its arguments, the store it was given and what it did;     *)
(* stored_data is the store after it.                                      *)

Blank(c) == c.k = "null" \/ (c.k = "text" /\ c.s = <<>>)

\* A record as the store is meant to hold it: a date that is a day of the
\* calendar, a product with a character other than whitespace, sales that
\* are a number not below zero.
WellFormed(r) ==
    /\ {DATE, PRODUCT, SALES} \subseteq DOMAIN r
    /\ r[DATE].k = "text" /\ to_datetime_coerce(r[DATE]).k = "ts"
    /\ r[PRODUCT].k = "text" /\ strip(r[PRODUCT].s) /= <<>>
    /\ r[SALES].k = "num" /\ r[SALES].n >= 0

UnsupportedName(filename) ==
    ~ \/ endswith(lower(filename), EXT_CSV)
      \/ endswith(lower(filename), EXT_XLSX)
      \/ endswith(lower(filename), EXT_XLS)

\* C1: every record of the store has sales that are a number not below
\* zero, a product that is not empty after trimming, and a valid date.
C1_StoreRecordsWellFormed ==
    \A i \in DOMAIN stored_data : WellFormed(stored_data[i])

\* C2: an upload whose file name has an unsupported extension, or whose
\* contents no reader accepts, is parsed to no table at all and leaves the
\* store exactly as it was.
C2_FailedUploadKeepsStore ==
    (/\ call.trigger_id = "upload-data"
     /\ UnsupportedName(call.filename) \/ ~call.upload_contents.readable)
    => /\ ~parse_uploaded_file(call.upload_contents, call.filename).ok
       /\ call.outcome = "PreventUpdate"
       /\ stored_data = call.current_data

\* C2, its cases: a readable file with an unsupported extension, and
\* unreadable contents under a supported one, dropped on a store that holds
\* records.
C2_Witness ==
    /\ call.trigger_id = "upload-data"
    /\ UnsupportedName(call.filename)
    /\ call.upload_contents.readable
    /\ call.current_data /= <<>>
    /\ stored_data = call.current_data

C2_WitnessUnreadable ==
    /\ call.trigger_id = "upload-data"
    /\ ~call.upload_contents.readable
    /\ ~UnsupportedName(call.filename)
    /\ call.current_data /= <<>>

\* C3: an upload of a readable file with no sales column among its headers
\* fails, and the store is as it was.
C3_NoSalesColumnRejected ==
    (/\ call.trigger_id = "upload-data"
     /\ ~UnsupportedName(call.filename)
     /\ call.upload_contents.readable
     /\ \A j \in DOMAIN call.upload_contents.columns :
            lower(strip(call.upload_contents.columns[j])) /= SALES)
    => /\ call.outcome /= "loaded"
       /\ stored_data = call.current_data

\* C4: a manual entry whose sales are below zero is rejected with the
\* validation failure, and the store is as it was.
C4_NegativeSalesRejected ==
    (/\ call.trigger_id = "add-data-btn"
     /\ call.sales.k = "num" /\ call.sales.n < 0)
    => /\ call.outcome = "fill in all fields"
       /\ stored_data = call.current_data

\* C5: a manual entry with the date, the product or the sales missing or
\* empty is rejected with the message "Please fill in all fields", shown as
\* a failure, and the store is identical to the one before the click.
C5_MissingFieldRejected ==
    (/\ call.trigger_id = "add-data-btn"
     /\ Blank(call.date) \/ Blank(call.product) \/ Blank(call.sales))
    => /\ call.outcome = "fill in all fields"
       /\ status_message.text = "Please fill in all fields"
       /\ status_style = "danger"
       /\ stored_data = call.current_data

\* C5, its case: the product given as the empty text, the other fields
\* filled in, on a store that holds records.
C5_Witness ==
    /\ call.trigger_id = "add-data-btn"
    /\ call.product = Text(<<>>)
    /\ ~Blank(call.date) /\ ~Blank(call.sales)
    /\ call.current_data /= <<>>
    /\ stored_data = call.current_data
    /\ status_style = "danger"

\* C6: the store after the page is loaded again is the store before it.
C6_StoreSurvivesReload ==
    call.outcome = "reload" => stored_data = call.current_data

\* C7: after a successful upload the store is exactly the records of the
\* normalized file, one per row and in the order of the rows, whatever it
\* held before.
C7_UploadReplacesStore ==
    call.outcome = "loaded"
    => LET df == parse_uploaded_file(call.upload_contents, call.filename) IN
       /\ df.ok
       /\ Len(stored_data) = Len(df.rows)
       /\ \A i \in DOMAIN stored_data :
              \A j \in DOMAIN df.columns :
                  (\A h \in DOMAIN df.columns : df.columns[h] = df.columns[j] => h <= j)
                  => stored_data[i][df.columns[j]] = to_json(df.rows[i][j])
       /\ \A i \in DOMAIN stored_data :
              DOMAIN stored_data[i] = Range(df.columns)

\* C7, its case: a file of three rows loaded over a store of other records,
\* none of which is left.
C7_Witness ==
    /\ call.outcome = "loaded"
    /\ Len(stored_data) = 3
    /\ call.current_data /= <<>>
    /\ \A i \in DOMAIN call.current_data :
           \A k \in DOMAIN stored_data : stored_data[k] /= call.current_data[i]

\* C8: a manual entry with a date, a product that is not empty and sales
\* that are a number not below zero (zero included) leaves the store as the
\* records it held, unchanged and in their order, followed by one record
\* with the date, the product and the sales of the entry.
C8_ValidEntryAppendsOne ==
    (/\ call.trigger_id = "add-data-btn"
     /\ ~Blank(call.date) /\ ~Blank(call.product)
     /\ call.sales.k = "num" /\ call.sales.n >= 0)
    => /\ call.outcome = "added"
       /\ Len(stored_data) = Len(call.current_data) + 1
       /\ SubSeq(stored_data, 1, Len(call.current_data)) = call.current_data
       /\ LET r == stored_data[Len(stored_data)] IN
          /\ {DATE, PRODUCT, SALES} \subseteq DOMAIN r
          /\ r[DATE].k = "text"
          /\ SubSeq(r[DATE].s, 1, 10) = call.date.s
          /\ to_datetime_coerce(r[DATE]) = to_datetime_coerce(call.date)
          /\ r[PRODUCT] = call.product
          /\ r[SALES] = call.sales

\* C8, its case: an entry with sales of zero added to a store that holds
\* records.
C8_Witness ==
    /\ call.trigger_id = "add-data-btn"
    /\ call.outcome = "added"
    /\ call.sales = Num(0)
    /\ call.current_data /= <<>>
    /\ Len(stored_data) = Len(call.current_data) + 1

\* C9: after the clear the store is the empty list, whatever it held.
C9_ClearEmptiesStore ==
    call.trigger_id = "clear-data-btn"
    => call.outcome = "cleared" /\ stored_data = <<>>

\* C9, its case: the clear of a store that holds records.
C9_Witness ==
    /\ call.trigger_id = "clear-data-btn"
    /\ call.current_data /= <<>>
    /\ stored_data = <<>>

\* The days of the records, and the sum of the sales of one day.
Days(records) ==
    {to_datetime_coerce(records[i][DATE]) : i \in DOMAIN records}

RECURSIVE SalesOn(_, _)
SalesOn(records, day) ==
    IF records = <<>> THEN 0
    ELSE SalesOn(Tail(records), day)
         + (IF to_datetime_coerce(records[1][DATE]) = day
            THEN records[1][SALES].n ELSE 0)

\* C10: for a store of well-formed records, the line chart drawn from it
\* has one point for each day in the store, its value the sum of the sales
\* of the records of that day, the days ascending.
C10_DailyPointPerDay ==
    (/\ ~render_pending
     /\ stored_data /= <<>>
     /\ \A i \in DOMAIN stored_data : WellFormed(stored_data[i]))
    => /\ sales_line_chart.kind = "line"
       /\ Len(sales_line_chart.x) = Cardinality(Days(stored_data))
       /\ \A i \in DOMAIN sales_line_chart.x :
              /\ sales_line_chart.x[i] \in Days(stored_data)
              /\ sales_line_chart.y[i] = Num(SalesOn(stored_data, sales_line_chart.x[i]))
       /\ \A i, j \in DOMAIN sales_line_chart.x :
              i < j => sales_line_chart.x[i].n < sales_line_chart.x[j].n

\* The number a card shows: its text without the '$' and the commas.
RECURSIVE ReadDigits(_)
ReadDigits(t) ==
    IF t = <<>> THEN 0
    ELSE IF t[Len(t)] = "," THEN ReadDigits(SubSeq(t, 1, Len(t) - 1))
    ELSE 10 * ReadDigits(SubSeq(t, 1, Len(t) - 1)) + digit_value(t[Len(t)])

IsNumberText(t) ==
    /\ t /= <<>>
    /\ is_digit(t[Len(t)])
    /\ \A i \in DOMAIN t : is_digit(t[i]) \/ t[i] = "," \/ (i = 1 /\ t[i] = "-")

ReadNumber(t) ==
    IF t[1] = "-" THEN 0 - ReadDigits(Tail(t)) ELSE ReadDigits(t)

ReadMoney(t) == ReadNumber(Tail(t))

IsMoneyText(t) == t /= <<>> /\ t[1] = "$" /\ IsNumberText(Tail(t))

\* The sum of the sales of the records from..to of the store.
RECURSIVE SumOfSales(_, _)
SumOfSales(records, to) ==
    IF to = 0 THEN 0
    ELSE SumOfSales(records, to - 1)
         + (IF records[to][SALES].k = "num" THEN records[to][SALES].n ELSE 0)

\* The trimmed product names of the store and the total of one of them.
TrimmedProducts(records) ==
    {strip(records[i][PRODUCT].s) : i \in DOMAIN records}

RECURSIVE TotalOfTrimmed(_, _, _)
TotalOfTrimmed(records, to, name) ==
    IF to = 0 THEN 0
    ELSE TotalOfTrimmed(records, to - 1, name)
         + (IF strip(records[to][PRODUCT].s) = name THEN records[to][SALES].n ELSE 0)

\* C11: for a store of well-formed records, the bar chart drawn from it has
\* one bar for each product name after trimming, its value the sum of the
\* sales under that name, the bars in descending order of value and at most
\* ten, and no product left out has a greater total than a product shown.
C11_BarsByTrimmedProduct ==
    (/\ ~render_pending
     /\ stored_data /= <<>>
     /\ \A i \in DOMAIN stored_data : WellFormed(stored_data[i]))
    => LET names == TrimmedProducts(stored_data)
           total(name) == TotalOfTrimmed(stored_data, Len(stored_data), name)
           x == product_bar_chart.x
           y == product_bar_chart.y
       IN  /\ product_bar_chart.kind = "bar"
           /\ Len(x) = IF Cardinality(names) < 10 THEN Cardinality(names) ELSE 10
           /\ \A i \in DOMAIN x :
                  /\ strip(x[i].s) \in names
                  /\ y[i] = Num(total(strip(x[i].s)))
           /\ \A i, j \in DOMAIN x :
                  i < j => strip(x[i].s) /= strip(x[j].s) /\ y[i].n >= y[j].n
           /\ \A name \in names :
                  (\A i \in DOMAIN x : strip(x[i].s) /= name)
                  => \A i \in DOMAIN x : total(name) <= y[i].n

C13_ClearedStatsZero ==
    (call.outcome = "cleared" /\ ~render_pending)
    => /\ sales_line_chart.x = <<>>
       /\ product_bar_chart.x = <<>>
       /\ Len(stats_cards) = 4
       /\ ReadMoney(stats_cards[1].value) = 0
       /\ ReadNumber(stats_cards[3].value) = 0
       /\ ReadNumber(stats_cards[4].value) = 0

\* The table a list of records is read back into, column by column.
FromRecords(columns, records) ==
    DataFrame(columns,
              [i \in DOMAIN records |-> [j \in DOMAIN columns |-> records[i][columns[j]]]])

ReadableUpload ==
    /\ call.trigger_id = "upload-data"
    /\ ~UnsupportedName(call.filename)
    /\ call.upload_contents.readable

\* C14: the records of a normalized file, normalized once more, are the
\* same records.
C14_NormalizeIdempotent ==
    ReadableUpload
    => LET df == parse_uploaded_file(call.upload_contents, call.filename)
           records == to_dict_records(df)
       IN  df.ok => to_dict_records(clean_table(FromRecords(df.columns, records))) = records

NotLineBreak(c) == c \notin {"\r", "\n"}

\* A header with every carriage return and line feed removed, then trimmed
\* and lowercased.
WithoutLineBreaks(h) == lower(strip(SelectSeq(h, NotLineBreak)))

Distinct(names) == \A i, j \in DOMAIN names : names[i] = names[j] => i = j

\* C15 as stated: the columns of the parsed file are its headers with the
\* carriage returns and line feeds removed wherever they stand, trimmed and
\* lowercased, and when these name date, product and sales no column is
\* added.
C15_LineBreaksRemovedAnywhere ==
    ReadableUpload
    => LET names == [j \in DOMAIN call.upload_contents.columns |->
                        WithoutLineBreaks(call.upload_contents.columns[j])]
           df == parse_uploaded_file(call.upload_contents, call.filename)
       IN  (Distinct(names) /\ {DATE, PRODUCT, SALES} \subseteq Range(names))
           => df.ok /\ df.columns = names

\* C15: the columns of the parsed file are its headers with the whitespace
\* around the name removed, carriage returns and line feeds among it, and
\* lowercased; when these name date, product and sales no column is added,
\* and each record has these keys only.
C15_HeadersTrimmedAndLowercased ==
    ReadableUpload
    => LET names == [j \in DOMAIN call.upload_contents.columns |->
                        lower(strip(call.upload_contents.columns[j]))]
           df == parse_uploaded_file(call.upload_contents, call.filename)
       IN  (Distinct(names) /\ {DATE, PRODUCT, SALES} \subseteq Range(names))
           => /\ df.ok /\ df.columns = names
              /\ call.outcome = "loaded"
                 => \A i \in DOMAIN stored_data : DOMAIN stored_data[i] = Range(names)

\* C15, its case: the headers " Date \r\n", "PRODUCT", "Sales" over the one
\* row (2024-01-01, A, 100) give the one record of that date, product and
\* sales, with no other key.
C15_Witness ==
    /\ call.outcome = "loaded"
    /\ call.upload_contents.columns
           = << <<" ","D","a","t","e"," ","\r","\n">>,
                <<"P","R","O","D","U","C","T">>, <<"S","a","l","e","s">> >>
    /\ Len(stored_data) = 1
    /\ DOMAIN stored_data[1] = {DATE, PRODUCT, SALES}
    /\ stored_data[1][DATE] = Text(D1 \o MIDNIGHT)
    /\ stored_data[1][PRODUCT] = Text(<<"A">>)
    /\ stored_data[1][SALES] = Num(100)

\* C16: the records of a parsed file are of rows whose sales are a number,
\* whose date is a day of the calendar and whose product is not empty after
\* trimming; no other row is among them.
C16_OnlyValidRowsKept ==
    ReadableUpload
    => LET df == parse_uploaded_file(call.upload_contents, call.filename)
           records == to_dict_records(df)
       IN  df.ok => \A i \in DOMAIN records :
                        /\ records[i][SALES].k = "num"
                        /\ records[i][DATE].k = "text"
                        /\ records[i][PRODUCT].k = "text"
                        /\ strip(records[i][PRODUCT].s) /= <<>>

\* C17: after an upload that did not load, the status shown is a failure
\* message that names the file.
C17_FailedUploadReported ==
    (call.trigger_id = "upload-data" /\ call.outcome /= "loaded")
    => /\ status_style = "danger"
       /\ status_message.filename = call.filename

\* C18: once a tab button was clicked, the upload section is shown and the
\* manual section hidden if and only if the last click was on the upload
\* tab, and exactly one of the two sections is shown.
C18_LastClickedTabShown ==
    last_tab /= ""
    => /\ (upload_section = "block" /\ manual_section = "none") <=> last_tab = "tab-upload"
       /\ (upload_section = "none" /\ manual_section = "block") <=> last_tab = "tab-manual"
       /\ (upload_section = "block") /= (manual_section = "block")

\* C19: for a store that is not empty and that update_dashboard renders,
\* the Records card, the heading of the table and the rows given to the
\* table all count the records of the store.
C19_RecordCountsAgree ==
    (/\ ~render_pending
     /\ stored_data /= <<>>
     /\ ~update_dashboard_raises(stored_data))
    => /\ Len(stats_cards) = 4
       /\ ReadNumber(stats_cards[4].value) = Len(stored_data)
       /\ data_table.shown
       /\ ReadNumber(data_table.heading) = Len(stored_data)
       /\ Len(data_table.data) = Len(stored_data)

====
